---- MODULE Spec2Model ----
(***************************************************************************)
(* aws-expect: timeout-bounded "wait until the resource satisfies P"       *)
(* primitives over a DynamoDB table (aws_expect/dynamodb.py) and an S3     *)
(* object (aws_expect/s3.py).                                              *)
(*                                                                         *)
(* One wait call is modelled from its first statement to its return or     *)
(* raise.  The monotonic clock is the variable now, counted in ticks of    *)
(* 1/TicksPerUnit second; it advances (Tick) while the call sleeps, while  *)
(* a request to the store is in flight and while other actors work on the  *)
(* store.  Other actors are the threads of the test-suite (put_item,       *)
(* update_item, delete_item, put_object, delete_object).                   *)
(***************************************************************************)
EXTENDS Integers, Sequences, FiniteSets, TLC

(***************************************************************************)
(* Bounds of the model.  Durations are in clock ticks.                     *)
(***************************************************************************)
TicksPerUnit == 2
MaxTimeout == 4
MaxPollInterval == 3
StartTime == 1
MaxLatency == 2

MaxTime == StartTime + MaxTimeout + MaxLatency

Min(a, b) == IF a <= b THEN a ELSE b
Max(a, b) == IF a >= b THEN a ELSE b

(***************************************************************************)
(* Python values.  A dict is a function from attribute names to values, a  *)
(* str is wrapped so that it can be compared with None.                    *)
(***************************************************************************)
PyNone == [tag |-> "None"]
Str(s) == [tag |-> "str", v |-> s]
EmptyDict == <<>>

\* dict.get(k): the value under k, None when k is missing
DictGet(d, k) == IF k \in DOMAIN d THEN d[k] ELSE PyNone

(***************************************************************************)
(* The resources the waiters are bound to, and what they can hold.         *)
(***************************************************************************)
TableName == "orders"
BucketName == "bkt"
ObjectKey == "data.json"

Key(pk) == [pk |-> Str(pk)]
Keys == {Key("k1"), Key("k2")}
CallKeys == {Key("k1")}

\* the attributes of an item besides its key
ItemAttrs ==
    { [total |-> Str("100")],
      [status |-> Str("pending"), total |-> Str("100")],
      [status |-> Str("shipped"), total |-> Str("100")] }
Items == {k @@ a : k \in Keys, a \in ItemAttrs}
KeyOf(item) == [pk |-> item.pk]

\* the entries a caller passes: None (omitted), {} or expected pairs
EntriesArgs ==
    { PyNone,
      EmptyDict,
      [status |-> Str("shipped")],
      [status |-> PyNone] }

\* object bodies, as the bytes stored
Bodies ==
    { "{\"status\": \"shipped\", \"total\": \"100\"}",
      "{\"status\": \"pending\"}",
      "{}",
      "[\"shipped\"]",
      "{\"status\": " }

(***************************************************************************)
(* math.ceil of a duration given in ticks, in whole units; and of a        *)
(* quotient of two tick counts.  \div rounds towards minus infinity.       *)
(***************************************************************************)
CeilDiv(a, b) == IF a % b = 0 THEN a \div b ELSE (a \div b) + 1
\* variant: rounds down
math_floor(ticks) == ticks \div TicksPerUnit

math_ceil(ticks) == CeilDiv(ticks, TicksPerUnit)

\* dynamodb.py:181, s3.py:71 and s3.py:124: max(1, math.ceil(poll_interval))
_compute_delay(poll_interval) == Max(1, math_ceil(poll_interval))

\* variant: the number of attempts is not clamped to 1
_build_waiter_config_NoClamp(timeout, poll_interval) ==
    LET delay == Max(1, math_ceil(poll_interval))
    IN  [Delay |-> delay, MaxAttempts |-> CeilDiv(timeout, delay * TicksPerUnit)]

\* s3.py:124-126
_build_waiter_config(timeout, poll_interval) ==
    LET delay == Max(1, math_ceil(poll_interval))
        max_attempts == Max(1, CeilDiv(timeout, delay * TicksPerUnit))
    IN  [Delay |-> delay, MaxAttempts |-> max_attempts]

\* variant: any() in place of all()
_matches_entries_Any(item, entries) ==
    \E k \in DOMAIN entries : DictGet(item, k) = entries[k]

\* variant: the item must have exactly the expected attributes
_matches_entries_Exact(item, entries) ==
    /\ DOMAIN item = DOMAIN entries
    /\ \A k \in DOMAIN entries : DictGet(item, k) = entries[k]

\* dynamodb.py:186 and s3.py:131: all(item.get(k) == v for k, v in entries.items())
_matches_entries(item, entries) ==
    \A k \in DOMAIN entries : DictGet(item, k) = entries[k]

\* json.loads(response["Body"].read()) on the bodies above
json_loads(body) ==
    CASE body = "{\"status\": \"shipped\", \"total\": \"100\"}" ->
            [ok |-> TRUE, isdict |-> TRUE,
             value |-> [status |-> Str("shipped"), total |-> Str("100")]]
      [] body = "{\"status\": \"pending\"}" ->
            [ok |-> TRUE, isdict |-> TRUE, value |-> [status |-> Str("pending")]]
      [] body = "{}" ->
            [ok |-> TRUE, isdict |-> TRUE, value |-> EmptyDict]
      [] body = "[\"shipped\"]" ->
            [ok |-> TRUE, isdict |-> FALSE, value |-> <<Str("shipped")>>]
      [] OTHER ->
            [ok |-> FALSE, isdict |-> FALSE, value |-> PyNone]

(***************************************************************************)
(* exceptions.py                                                           *)
(***************************************************************************)
Bases ==
    [ WaitTimeoutError |-> "Exception",
      S3WaitTimeoutError |-> "WaitTimeoutError",
      DynamoDBWaitTimeoutError |-> "WaitTimeoutError",
      ClientError |-> "Exception",
      Exception |-> "Exception" ]

\* isinstance(exc, cls)
isinstance(exc, cls) ==
    cls \in {exc.cls, Bases[exc.cls], Bases[Bases[exc.cls]]}

\* variant: bucket and key passed in the wrong order
S3WaitTimeoutError_Swapped(bucket, key, timeout) ==
    [ cls |-> "S3WaitTimeoutError",
      bucket |-> key, key |-> bucket, timeout |-> timeout,
      msg |-> <<"Timed out after ", timeout, "s waiting for s3://", key, "/", bucket>> ]

\* exceptions.py:14-18
S3WaitTimeoutError(bucket, key, timeout) ==
    [ cls |-> "S3WaitTimeoutError",
      bucket |-> bucket, key |-> key, timeout |-> timeout,
      msg |-> <<"Timed out after ", timeout, "s waiting for s3://", bucket, "/", key>> ]

\* variant: the message argument is ignored
DynamoDBWaitTimeoutError_DefaultMessage(table_name, key, timeout, message) ==
    [ cls |-> "DynamoDBWaitTimeoutError",
      table_name |-> table_name, key |-> key, timeout |-> timeout,
      msg |-> <<"Timed out after ", timeout, "s waiting for item ", key,
                " in table ", table_name>> ]

\* exceptions.py:24-38
DynamoDBWaitTimeoutError(table_name, key, timeout, message) ==
    [ cls |-> "DynamoDBWaitTimeoutError",
      table_name |-> table_name, key |-> key, timeout |-> timeout,
      msg |-> IF message # PyNone
                THEN message
                ELSE <<"Timed out after ", timeout, "s waiting for item ", key,
                       " in table ", table_name>> ]

\* botocore.exceptions.ClientError with err.response["Error"]["Code"]
ClientError(code) == [cls |-> "ClientError", Code |-> code]

(***************************************************************************)
(* State.                                                                  *)
(*   now          the monotonic clock, in ticks                            *)
(*   table        the items of the DynamoDB table                          *)
(*   bucket       the objects of the S3 bucket                             *)
(*   self         the fields the waiter captured when it was constructed   *)
(*   args         the arguments of the wait call                           *)
(*   pc           where the call is: start, poll, deadline, sleep, native, *)
(*                native_sleep, head, done                                 *)
(*   delay, deadline, wake, max_attempts   the locals of the call          *)
(*   outcome      what the call returned or raised                         *)
(*   polls, unsat, sleeps   requests sent to the store, requests that      *)
(*                found the predicate unsatisfied, sleeps requested        *)
(*   slept        the sum of the durations of the sleeps requested, ticks  *)
(*   issuedAt     the clock when the latest request left the caller        *)
(*   satBefore    the store has satisfied the call's predicate without     *)
(*                interruption since a time before start + timeout         *)
(*   answer       how the store answered the latest request: "ok", or the  *)
(*                error code of the failure ("none" before any request)    *)
(*   other        a second item waiter's to_exist call on the same table:  *)
(*                its args, pc, delay, deadline, wake, outcome and         *)
(*                satBefore; [pc |-> "absent"] when there is none          *)
(***************************************************************************)
VARIABLES now, table, bucket, self, args, pc, delay, deadline, wake,
          max_attempts, outcome, polls, unsat, sleeps, slept, issuedAt, satBefore,
          answer, other

vars == <<now, table, bucket, self, args, pc, delay, deadline, wake,
          max_attempts, outcome, polls, unsat, sleeps, slept, issuedAt, satBefore,
          answer, other>>

DynamoOps == {"dynamodb.to_exist", "dynamodb.to_be_empty",
              "dynamodb.to_not_be_empty", "dynamodb.to_not_exist"}
S3Ops == {"s3.to_exist", "s3.to_not_exist"}

Timeouts == (0 - 1) .. MaxTimeout
PollIntervals == {0, MaxPollInterval}

\* the calls a caller can make
CallArgs ==
    [op : {"dynamodb.to_exist"}, key : CallKeys, entries : EntriesArgs,
     timeout : Timeouts, poll_interval : PollIntervals]
    \cup
    [op : {"dynamodb.to_not_exist"}, key : CallKeys, entries : {PyNone},
     timeout : Timeouts, poll_interval : PollIntervals]
    \cup
    [op : {"dynamodb.to_be_empty", "dynamodb.to_not_be_empty", "s3.to_not_exist"},
     key : {PyNone}, entries : {PyNone},
     timeout : Timeouts, poll_interval : PollIntervals]
    \cup
    [op : {"s3.to_exist"}, key : {PyNone}, entries : EntriesArgs,
     timeout : Timeouts, poll_interval : PollIntervals]

\* tables hold at most one item per key, buckets at most one object per key
Tables == {t \in SUBSET Items : \A i, j \in t : KeyOf(i) = KeyOf(j) => i = j}
Object(body) == [Key |-> ObjectKey, Body |-> body]
Buckets == {{}} \cup {{Object(b)} : b \in Bodies}

(***************************************************************************)
(* The store's operations.                                                 *)
(***************************************************************************)
\* Table.get_item(Key=key): the response holds "Item" when the item exists
get_item(t, key) ==
    IF \E i \in t : KeyOf(i) = key
      THEN [Item |-> CHOOSE i \in t : KeyOf(i) = key]
      ELSE EmptyDict

\* Table.scan(Select="COUNT", Limit=limit)
scan(t, limit) == [Count |-> Min(limit, Cardinality(t))]

\* Table.put_item(Item=item)
put_item(t, item) == {i \in t : KeyOf(i) # KeyOf(item)} \cup {item}

\* Table.update_item(Key=key, "SET #a = :val")
update_item(t, key, attr, val) ==
    LET old == DictGet(get_item(t, key), "Item")
        base == IF old = PyNone THEN key ELSE old
    IN  put_item(t, [a \in DOMAIN base \cup {attr} |->
                        IF a = attr THEN val ELSE base[a]])

\* Table.delete_item(Key=key)
delete_item(t, key) == {i \in t : KeyOf(i) # key}

object_present(b) == \E o \in b : o.Key = ObjectKey
the_object(b) == CHOOSE o \in b : o.Key = ObjectKey

\* client.head_object(Bucket, Key) of an existing object
head_object(b) == [ETag |-> the_object(b).Body, Key |-> ObjectKey]

(***************************************************************************)
(* The predicate a call waits for, as the store satisfies it (spec 4.2-4.4: *)
(* a record matches when it contains every expected key with an equal      *)
(* value).  Used to keep satBefore and to state the claims.                *)
(***************************************************************************)
SubsetMatch(candidate, expected) ==
    \A k \in DOMAIN expected : k \in DOMAIN candidate /\ candidate[k] = expected[k]

Holds(a, t, b) ==
    CASE a.op = "dynamodb.to_exist" ->
            /\ "Item" \in DOMAIN get_item(t, a.key)
            /\ a.entries = PyNone \/ SubsetMatch(get_item(t, a.key).Item, a.entries)
      [] a.op = "dynamodb.to_not_exist" -> "Item" \notin DOMAIN get_item(t, a.key)
      [] a.op = "dynamodb.to_be_empty" -> t = {}
      [] a.op = "dynamodb.to_not_be_empty" -> t # {}
      [] a.op = "s3.to_exist" ->
            /\ object_present(b)
            /\ \/ a.entries = PyNone
               \/ /\ json_loads(the_object(b).Body).isdict
                  /\ SubsetMatch(json_loads(the_object(b).Body).value, a.entries)
      [] a.op = "s3.to_not_exist" -> ~object_present(b)

CallDeadline == StartTime + args.timeout

SatBeforeAfter(t, b) ==
    IF Holds(args, t, b)
      THEN IF Holds(args, table, bucket) THEN satBefore ELSE now < CallDeadline
      ELSE FALSE

NoOutcome == [kind |-> "none"]
NoWaiter == [pc |-> "absent"]
Returned(v) == [kind |-> "return", value |-> v]
Raised(e) == [kind |-> "raise", exc |-> e]

Init ==
    /\ now = StartTime
    /\ args \in CallArgs
    /\ table \in (IF args.op \in DynamoOps THEN Tables ELSE {{}})
    /\ bucket \in (IF args.op \in S3Ops THEN Buckets ELSE {{}})
    /\ self = [_table_name |-> TableName, _bucket |-> BucketName, _key |-> ObjectKey]
    /\ pc = "start"
    /\ delay = 0
    /\ deadline = 0
    /\ wake = 0
    /\ max_attempts = 0
    /\ outcome = NoOutcome
    /\ polls = 0
    /\ unsat = 0
    /\ sleeps = 0
    /\ slept = 0
    /\ issuedAt = 0
    /\ satBefore = FALSE
    /\ answer = "none"
    /\ other = NoWaiter

(***************************************************************************)
(* The steps shared by the five explicit poll loops (dynamodb.py:44-56,    *)
(* 79-100, 123-144, 165-176 and s3.py:71-91).                              *)
(***************************************************************************)
LoopOps == DynamoOps \cup {"s3.to_exist"}

\* return value / raise exception: the call is over
Finish(o) ==
    /\ pc' = "done"
    /\ outcome' = o

\* variant: one delay unit of grace after the timeout
ComputeDeadline_Late(clock, timeout) == clock + timeout + TicksPerUnit

\* time.monotonic() + timeout
ComputeDeadline(clock, timeout) == clock + timeout

\* variant: the deadline test written with a strict comparison
Expired_Strict(remaining) == remaining < 0

\* remaining <= 0
Expired(remaining) == remaining <= 0

\* variant: time.sleep(delay), the remaining time ignored
SleepAmount_WholeDelay(d, remaining) == d * TicksPerUnit

\* min(delay, remaining): delay is in whole units, remaining in ticks
\* variant: sleeps all the time that is left
SleepAmount_Remaining(d, remaining) == remaining

SleepAmount(d, remaining) == Min(d * TicksPerUnit, remaining)

\* delay = ...; deadline = time.monotonic() + timeout; first request
LoopBegin(op) ==
    /\ pc = "start"
    /\ args.op = op
    /\ delay' = _compute_delay(args.poll_interval)
    /\ deadline' = ComputeDeadline(now, args.timeout)
    /\ pc' = "poll"
    /\ issuedAt' = now
    /\ satBefore' = (Holds(args, table, bucket) /\ now < CallDeadline)
    /\ UNCHANGED <<now, table, bucket, self, other, args, wake, max_attempts, outcome,
                   polls, unsat, sleeps, slept, answer>>

\* a request that found the predicate unsatisfied: go on to the deadline check
Unsatisfied ==
    /\ pc' = "deadline"
    /\ unsat' = unsat + 1
    /\ UNCHANGED outcome

\* remaining = deadline - time.monotonic(); raise when exhausted, else sleep
LoopDeadline(op, exc) ==
    /\ pc = "deadline"
    /\ args.op = op
    /\ LET remaining == deadline - now
       IN  IF Expired(remaining)
             THEN /\ Finish(Raised(exc))
                  /\ UNCHANGED <<wake, sleeps, slept>>
             ELSE /\ pc' = "sleep"
                  /\ wake' = now + SleepAmount(delay, remaining)
                  /\ sleeps' = sleeps + 1
                  /\ slept' = slept + SleepAmount(delay, remaining)
                  /\ UNCHANGED outcome
    /\ UNCHANGED <<now, table, bucket, self, other, args, delay, deadline, max_attempts,
                   polls, unsat, issuedAt, satBefore, answer>>

\* time.sleep returns, no earlier than asked; the next request leaves
Wake ==
    /\ pc = "sleep"
    /\ now >= wake
    /\ pc' = "poll"
    /\ issuedAt' = now
    /\ UNCHANGED <<now, table, bucket, self, other, args, delay, deadline, wake,
                   max_attempts, outcome, polls, unsat, sleeps, slept, satBefore, answer>>

\* variant: the lookup consumes what it read
PollFrame_Consuming ==
    /\ table' = {}
    /\ UNCHANGED <<now, bucket, self, other, args, delay, deadline, wake,
                   max_attempts, sleeps, slept, issuedAt, satBefore>>

PollFrame == UNCHANGED <<now, table, bucket, self, other, args, delay, deadline, wake,
                         max_attempts, sleeps, slept, issuedAt, satBefore>>

(***************************************************************************)
(* DynamoDBItemExpectation                                                 *)
(***************************************************************************)
\* variant: an empty entries mapping never matches
ToExistSatisfied_NonEmpty(item, entries) ==
    item # PyNone /\ (entries = PyNone \/ (entries # EmptyDict /\ _matches_entries(item, entries)))

\* dynamodb.py:50-52
ToExistSatisfied(item, entries) ==
    item # PyNone /\ (entries = PyNone \/ _matches_entries(item, entries))

\* dynamodb.py:48-52; a ClientError of get_item is not caught
ToExistPoll ==
    /\ pc = "poll"
    /\ args.op = "dynamodb.to_exist"
    /\ polls' = polls + 1
    /\ \E fault \in BOOLEAN :
         /\ answer' = (IF fault THEN "InternalServerError" ELSE "ok")
         /\ IF fault
           THEN Finish(Raised(ClientError("InternalServerError"))) /\ UNCHANGED unsat
           ELSE LET response == get_item(table, args.key)
                    item == DictGet(response, "Item")
                IN  IF ToExistSatisfied(item, args.entries)
                      THEN Finish(Returned(item)) /\ UNCHANGED unsat
                      ELSE Unsatisfied
    /\ PollFrame

\* dynamodb.py:55
ToExistTimeout == DynamoDBWaitTimeoutError(self._table_name, args.key, args.timeout, PyNone)

to_exist ==
    \/ LoopBegin("dynamodb.to_exist")
    \/ ToExistPoll
    \/ LoopDeadline("dynamodb.to_exist", ToExistTimeout)

\* variant: the emptiness test reads "Items", which a COUNT scan never returns
ToBeEmptySatisfied_ItemsLen(response) ==
    (IF "Items" \in DOMAIN response THEN Len(response.Items) ELSE 0) = 0

\* dynamodb.py:87
ToBeEmptySatisfied(response) ==
    (IF "Count" \in DOMAIN response THEN response.Count ELSE 0) = 0

\* dynamodb.py:83-88
ToBeEmptyPoll ==
    /\ pc = "poll"
    /\ args.op = "dynamodb.to_be_empty"
    /\ polls' = polls + 1
    /\ \E fault \in BOOLEAN :
         /\ answer' = (IF fault THEN "InternalServerError" ELSE "ok")
         /\ IF fault
           THEN Finish(Raised(ClientError("InternalServerError"))) /\ UNCHANGED unsat
           ELSE IF ToBeEmptySatisfied(scan(table, 1))
                  THEN Finish(Returned(PyNone)) /\ UNCHANGED unsat
                  ELSE Unsatisfied
    /\ PollFrame

\* dynamodb.py:91-99
ToBeEmptyTimeout ==
    DynamoDBWaitTimeoutError(self._table_name, PyNone, args.timeout,
        <<"Timed out after ", args.timeout, "s waiting for table ",
          self._table_name, " to be empty">>)

to_be_empty ==
    \/ LoopBegin("dynamodb.to_be_empty")
    \/ ToBeEmptyPoll
    \/ LoopDeadline("dynamodb.to_be_empty", ToBeEmptyTimeout)

\* dynamodb.py:131
ToNotBeEmptySatisfied(response) ==
    (IF "Count" \in DOMAIN response THEN response.Count ELSE 0) > 0

\* dynamodb.py:127-132
ToNotBeEmptyPoll ==
    /\ pc = "poll"
    /\ args.op = "dynamodb.to_not_be_empty"
    /\ polls' = polls + 1
    /\ \E fault \in BOOLEAN :
         /\ answer' = (IF fault THEN "InternalServerError" ELSE "ok")
         /\ IF fault
           THEN Finish(Raised(ClientError("InternalServerError"))) /\ UNCHANGED unsat
           ELSE IF ToNotBeEmptySatisfied(scan(table, 1))
                  THEN Finish(Returned(PyNone)) /\ UNCHANGED unsat
                  ELSE Unsatisfied
    /\ PollFrame

\* dynamodb.py:135-143
ToNotBeEmptyTimeout ==
    DynamoDBWaitTimeoutError(self._table_name, PyNone, args.timeout,
        <<"Timed out after ", args.timeout, "s waiting for table ",
          self._table_name, " to not be empty">>)

to_not_be_empty ==
    \/ LoopBegin("dynamodb.to_not_be_empty")
    \/ ToNotBeEmptyPoll
    \/ LoopDeadline("dynamodb.to_not_be_empty", ToNotBeEmptyTimeout)

\* variant: the test of to_exist copied into to_not_exist
ToNotExistSatisfied_Inverted(item) == item # PyNone

\* dynamodb.py:171
ToNotExistSatisfied(item) == item = PyNone

\* dynamodb.py:169-172
ToNotExistPoll ==
    /\ pc = "poll"
    /\ args.op = "dynamodb.to_not_exist"
    /\ polls' = polls + 1
    /\ \E fault \in BOOLEAN :
         /\ answer' = (IF fault THEN "InternalServerError" ELSE "ok")
         /\ IF fault
           THEN Finish(Raised(ClientError("InternalServerError"))) /\ UNCHANGED unsat
           ELSE LET response == get_item(table, args.key)
                    item == DictGet(response, "Item")
                IN  IF ToNotExistSatisfied(item)
                      THEN Finish(Returned(PyNone)) /\ UNCHANGED unsat
                      ELSE Unsatisfied
    /\ PollFrame

\* dynamodb.py:175
ToNotExistTimeout == DynamoDBWaitTimeoutError(self._table_name, args.key, args.timeout, PyNone)

to_not_exist ==
    \/ LoopBegin("dynamodb.to_not_exist")
    \/ ToNotExistPoll
    \/ LoopDeadline("dynamodb.to_not_exist", ToNotExistTimeout)

(***************************************************************************)
(* S3ObjectExpectation                                                     *)
(***************************************************************************)
\* client.get_object(Bucket, Key): the body, or the code of the ClientError
get_object(b, fault) ==
    IF fault THEN [Error |-> "AccessDenied"]
    ELSE IF object_present(b) THEN [Body |-> the_object(b).Body]
    ELSE [Error |-> "NoSuchKey"]

\* variant: every ClientError of get_object is taken for "not there yet"
NotFoundCodes_Everything == {"NoSuchKey", "404", "AccessDenied"}

\* s3.py:82: the codes of a ClientError that is not raised again
NotFoundCodes == {"NoSuchKey", "404"}

\* s3.py:78
\* variant: the deadline is looked at before the content
PollForEntriesSatisfied_DeadlineFirst(body, entries) ==
    now < deadline /\ body.ok /\ body.isdict /\ _matches_entries(body.value, entries)

PollForEntriesSatisfied(body, entries) ==
    body.ok /\ body.isdict /\ _matches_entries(body.value, entries)

\* s3.py:75-86
PollForEntriesPoll ==
    /\ pc = "poll"
    /\ args.op = "s3.to_exist"
    /\ polls' = polls + 1
    /\ \E fault \in BOOLEAN :
         LET response == get_object(bucket, fault)
         IN  /\ answer' = (IF "Error" \in DOMAIN response THEN response.Error ELSE "ok")
             /\ IF "Error" \in DOMAIN response
                  THEN IF response.Error \notin NotFoundCodes
                         THEN Finish(Raised(ClientError(response.Error))) /\ UNCHANGED unsat
                         ELSE Unsatisfied
                  ELSE LET body == json_loads(response.Body)
                       IN  IF PollForEntriesSatisfied(body, args.entries)
                             THEN Finish(Returned(body.value)) /\ UNCHANGED unsat
                             ELSE Unsatisfied
    /\ PollFrame

\* s3.py:61, 90 and 114
S3Timeout == S3WaitTimeoutError(self._bucket, self._key, args.timeout)

\* s3.py:50-51 and 71-91
_poll_for_entries ==
    \/ args.entries # PyNone /\ LoopBegin("s3.to_exist")
    \/ PollForEntriesPoll
    \/ LoopDeadline("s3.to_exist", S3Timeout)

(***************************************************************************)
(* The native waiters object_exists and object_not_exists, as              *)
(* botocore.waiter.Waiter.wait runs them: head_object, then success,       *)
(* WaiterError on an unexpected error or once MaxAttempts requests were    *)
(* made, else sleep Delay and try again.                                   *)
(***************************************************************************)
\* client.head_object(Bucket, Key): "ok", or the code of the ClientError
head_status(b, fault) ==
    IF fault THEN "AccessDenied"
    ELSE IF object_present(b) THEN "ok"
    ELSE "404"

\* s3.py:53, 106: waiter_config = self._build_waiter_config(timeout, poll_interval)
NativeBegin(op) ==
    /\ pc = "start"
    /\ args.op = op
    /\ LET waiter_config == _build_waiter_config(args.timeout, args.poll_interval)
       IN  /\ delay' = waiter_config.Delay
           /\ max_attempts' = waiter_config.MaxAttempts
    /\ pc' = "native"
    /\ issuedAt' = now
    /\ satBefore' = (Holds(args, table, bucket) /\ now < CallDeadline)
    /\ UNCHANGED <<now, table, bucket, self, other, args, deadline, wake, outcome,
                   polls, unsat, sleeps, slept, answer>>

\* one attempt of the native waiter; except WaiterError: raise S3WaitTimeoutError
NativeAttempt(op, wantPresent, afterSuccess) ==
    /\ pc = "native"
    /\ args.op = op
    /\ polls' = polls + 1
    /\ \E fault \in BOOLEAN :
         /\ answer' = head_status(bucket, fault)
         /\ IF fault
           THEN Finish(Raised(S3Timeout)) /\ UNCHANGED <<unsat, wake, sleeps, slept>>
           ELSE IF object_present(bucket) = wantPresent
                  THEN /\ IF afterSuccess = "head"
                            THEN pc' = "head" /\ UNCHANGED outcome
                            ELSE Finish(Returned(PyNone))
                       /\ UNCHANGED <<unsat, wake, sleeps, slept>>
                  ELSE /\ unsat' = unsat + 1
                       /\ IF polls + 1 >= max_attempts
                            THEN Finish(Raised(S3Timeout)) /\ UNCHANGED <<wake, sleeps, slept>>
                            ELSE /\ pc' = "native_sleep"
                                 /\ wake' = now + delay * TicksPerUnit
                                 /\ sleeps' = sleeps + 1
                                 /\ slept' = slept + delay * TicksPerUnit
                                 /\ UNCHANGED outcome
    /\ UNCHANGED <<now, table, bucket, self, other, args, delay, deadline, max_attempts,
                   issuedAt, satBefore>>

\* the native waiter's sleep returns; the next head_object leaves
NativeWake ==
    /\ pc = "native_sleep"
    /\ now >= wake
    /\ pc' = "native"
    /\ issuedAt' = now
    /\ UNCHANGED <<now, table, bucket, self, other, args, delay, deadline, wake,
                   max_attempts, outcome, polls, unsat, sleeps, slept, satBefore, answer>>

\* s3.py:62: return self._client.head_object(...); its ClientError is not caught
HeadObject ==
    /\ pc = "head"
    /\ polls' = polls + 1
    /\ \E fault \in BOOLEAN :
         /\ answer' = head_status(bucket, fault)
         /\ IF fault THEN Finish(Raised(ClientError("AccessDenied")))
            ELSE IF object_present(bucket) THEN Finish(Returned(head_object(bucket)))
            ELSE Finish(Raised(ClientError("404")))
    /\ UNCHANGED <<now, table, bucket, self, other, args, delay, deadline, wake,
                   max_attempts, unsat, sleeps, slept, issuedAt, satBefore>>

\* s3.py:50-62
s3_to_exist ==
    \/ _poll_for_entries
    \/ args.entries = PyNone /\ NativeBegin("s3.to_exist")
    \/ NativeAttempt("s3.to_exist", TRUE, "head")
    \/ HeadObject

\* s3.py:106-115
s3_to_not_exist ==
    \/ NativeBegin("s3.to_not_exist")
    \/ NativeAttempt("s3.to_not_exist", FALSE, "return")

(***************************************************************************)
(* The clock and the other actors.                                         *)
(***************************************************************************)
\* the clock and the other actors go on after the call has ended
(***************************************************************************)
(* A second DynamoDBItemExpectation on the same table, whose to_exist call *)
(* runs on another thread (dynamodb.py:15-17 and 44-56).  It has its own   *)
(* locals; the table and the clock are the only things it has in common    *)
(* with the first waiter.                                                  *)
(***************************************************************************)
TwoTimeouts == {1, TicksPerUnit}
TwoItems == {k @@ [total |-> Str("100")] : k \in Keys}
TwoEntries == {PyNone}

OtherArgs ==
    [op : {"dynamodb.to_exist"}, key : Keys, entries : TwoEntries,
     timeout : TwoTimeouts, poll_interval : {0}]

\* the second call's satBefore after the table became t
OtherAfterStore(t) ==
    IF other.pc \in {"absent", "start"}
      THEN other
      ELSE [other EXCEPT !.satBefore =
              IF Holds(other.args, t, bucket)
                THEN IF Holds(other.args, table, bucket)
                       THEN other.satBefore
                       ELSE now < other.deadline
                ELSE FALSE]

OtherFrame == UNCHANGED <<now, table, bucket, self, args, pc, delay, deadline, wake,
                          max_attempts, outcome, polls, unsat, sleeps, slept, issuedAt,
                          satBefore, answer>>

\* dynamodb.py:44-45
OtherBegin ==
    /\ other.pc = "start"
    /\ other' = [other EXCEPT
                   !.pc = "poll",
                   !.delay = _compute_delay(other.args.poll_interval),
                   !.deadline = ComputeDeadline(now, other.args.timeout),
                   !.satBefore = /\ Holds(other.args, table, bucket)
                                 /\ now < ComputeDeadline(now, other.args.timeout)]
    /\ OtherFrame

\* dynamodb.py:48-52
OtherPoll ==
    /\ other.pc = "poll"
    /\ \E fault \in BOOLEAN :
         IF fault
           THEN other' = [other EXCEPT
                            !.pc = "done",
                            !.outcome = Raised(ClientError("InternalServerError"))]
           ELSE LET response == get_item(table, other.args.key)
                    item == DictGet(response, "Item")
                IN  IF ToExistSatisfied(item, other.args.entries)
                      THEN other' = [other EXCEPT !.pc = "done",
                                                  !.outcome = Returned(item)]
                      ELSE other' = [other EXCEPT !.pc = "deadline"]
    /\ OtherFrame

\* dynamodb.py:53-56
OtherDeadline ==
    /\ other.pc = "deadline"
    /\ LET remaining == other.deadline - now
       IN  IF Expired(remaining)
             THEN other' = [other EXCEPT
                              !.pc = "done",
                              !.outcome = Raised(DynamoDBWaitTimeoutError(
                                  self._table_name, other.args.key,
                                  other.args.timeout, PyNone))]
             ELSE other' = [other EXCEPT
                              !.pc = "sleep",
                              !.wake = now + SleepAmount(other.delay, remaining)]
    /\ OtherFrame

\* time.sleep returns on the second thread
OtherWake ==
    /\ other.pc = "sleep"
    /\ now >= other.wake
    /\ other' = [other EXCEPT !.pc = "poll"]
    /\ OtherFrame

other_to_exist ==
    \/ OtherBegin
    \/ OtherPoll
    \/ OtherDeadline
    \/ OtherWake

Running == pc # "start"

Tick ==
    /\ Running
    /\ now < MaxTime
    /\ now' = now + 1
    /\ UNCHANGED <<table, bucket, self, other, args, pc, delay, deadline, wake,
                   max_attempts, outcome, polls, unsat, sleeps, slept, issuedAt, satBefore,
                   answer>>

StoreFrame == UNCHANGED <<now, self, args, pc, delay, deadline, wake,
                          max_attempts, outcome, polls, unsat, sleeps, slept, issuedAt, answer>>

PutItemOf(items) ==
    /\ Running /\ args.op \in DynamoOps
    /\ \E item \in items :
         /\ table' = put_item(table, item)
         /\ table' # table
    /\ satBefore' = SatBeforeAfter(table', bucket)
    /\ UNCHANGED bucket
    /\ other' = OtherAfterStore(table')
    /\ StoreFrame

PutItem == PutItemOf(Items)

UpdateItem ==
    /\ Running /\ args.op \in DynamoOps
    /\ \E key \in Keys :
         /\ table' = update_item(table, key, "status", Str("shipped"))
         /\ table' # table
    /\ satBefore' = SatBeforeAfter(table', bucket)
    /\ UNCHANGED bucket
    /\ other' = OtherAfterStore(table')
    /\ StoreFrame

DeleteItem ==
    /\ Running /\ args.op \in DynamoOps
    /\ \E key \in Keys :
         /\ table' = delete_item(table, key)
         /\ table' # table
    /\ satBefore' = SatBeforeAfter(table', bucket)
    /\ UNCHANGED bucket
    /\ other' = OtherAfterStore(table')
    /\ StoreFrame

PutObject ==
    /\ Running /\ args.op \in S3Ops
    /\ \E body \in Bodies :
         /\ bucket' = {Object(body)}
         /\ bucket' # bucket
    /\ satBefore' = SatBeforeAfter(table, bucket')
    /\ UNCHANGED <<table, other>>
    /\ StoreFrame

DeleteObject ==
    /\ Running /\ args.op \in S3Ops
    /\ bucket # {}
    /\ bucket' = {}
    /\ satBefore' = SatBeforeAfter(table, bucket')
    /\ UNCHANGED <<table, other>>
    /\ StoreFrame

Next ==
    \/ to_exist
    \/ to_be_empty
    \/ to_not_be_empty
    \/ to_not_exist
    \/ s3_to_exist
    \/ s3_to_not_exist
    \/ Wake
    \/ NativeWake
    \/ Tick
    \/ PutItem
    \/ UpdateItem
    \/ DeleteItem
    \/ PutObject
    \/ DeleteObject

Spec == Init /\ [][Next]_vars

(***************************************************************************)
(* The same program with its scheduling: every store request is answered   *)
(* and the caller's thread goes on to its next statement (CallStep), and   *)
(* the clock advances (Tick), so that time.sleep returns.  Other actors    *)
(* owe nothing.                                                            *)
(***************************************************************************)
CallStep ==
    \/ to_exist
    \/ to_be_empty
    \/ to_not_be_empty
    \/ to_not_exist
    \/ s3_to_exist
    \/ s3_to_not_exist
    \/ Wake
    \/ NativeWake

SpecFair == Spec /\ WF_vars(CallStep) /\ WF_vars(Tick)

(***************************************************************************)
(* Two to_exist calls on one table, from two waiters on two threads.       *)
(***************************************************************************)
InitTwo ==
    /\ now = StartTime
    /\ args \in [op : {"dynamodb.to_exist"}, key : CallKeys, entries : TwoEntries,
                 timeout : TwoTimeouts, poll_interval : {0}]
    /\ table = {}
    /\ bucket = {}
    /\ self = [_table_name |-> TableName, _bucket |-> BucketName, _key |-> ObjectKey]
    /\ pc = "start"
    /\ delay = 0
    /\ deadline = 0
    /\ wake = 0
    /\ max_attempts = 0
    /\ outcome = NoOutcome
    /\ polls = 0
    /\ unsat = 0
    /\ sleeps = 0
    /\ slept = 0
    /\ issuedAt = 0
    /\ satBefore = FALSE
    /\ answer = "none"
    /\ other \in [args : OtherArgs, pc : {"start"}, delay : {0}, deadline : {0},
                  wake : {0}, outcome : {NoOutcome}, satBefore : {FALSE}]

NextTwo ==
    \/ to_exist
    \/ Wake
    \/ other_to_exist
    \/ Tick
    \/ PutItemOf(TwoItems)
    \/ DeleteItem

SpecTwo == InitTwo /\ [][NextTwo]_vars

(***************************************************************************)
(* Vocabulary of the properties.                                           *)
(***************************************************************************)
\* the call runs one of the five explicit poll loops
IsLoopCall ==
    args.op \in DynamoOps \/ (args.op = "s3.to_exist" /\ args.entries # PyNone)

Done == pc = "done"
ReturnedValue == Done /\ outcome.kind = "return"
TimedOut == Done /\ outcome.kind = "raise" /\ isinstance(outcome.exc, "WaitTimeoutError")

\* the step is a request to the store being answered
PollStep == pc = "poll" /\ pc' # pc

(***************************************************************************)
(* C1.  Item waiter to_exist returns only at a poll whose lookup found a   *)
(* record for key that, when entries is given, contains every expected key *)
(* with an equal value; the value returned is the full record that poll    *)
(* saw.  (Refuted by the code: see C5.)                                    *)
(***************************************************************************)
C1_ToExistReturnsOnlyMatchingRecord ==
    [][ (args.op = "dynamodb.to_exist" /\ PollStep /\ outcome'.kind = "return") =>
          LET response == get_item(table, args.key)
          IN  /\ "Item" \in DOMAIN response
              /\ args.entries = PyNone \/ SubsetMatch(response.Item, args.entries)
              /\ outcome'.value = response.Item ]_vars

C3_LastCheckAtOrAfterDeadline ==
    (IsLoopCall /\ TimedOut) => (issuedAt >= deadline /\ unsat = polls)

(***************************************************************************)
(* C4.  After each unsatisfied poll the loop computes remaining =          *)
(* deadline - now; when remaining <= 0 it raises the timeout failure       *)
(* without sleeping or polling again, otherwise it sleeps exactly          *)
(* min(delay, remaining): no requested sleep ends after the deadline or    *)
(* lasts longer than delay.                                                *)
(***************************************************************************)
C4_SleepNeverOvershoots ==
    [][ /\ (IsLoopCall /\ PollStep /\ unsat' # unsat) => pc' = "deadline"
        /\ (IsLoopCall /\ pc = "deadline" /\ pc' # pc) =>
             LET remaining == deadline - now
             IN  IF remaining <= 0
                   THEN /\ pc' = "done"
                        /\ outcome'.kind = "raise"
                        /\ isinstance(outcome'.exc, "WaitTimeoutError")
                        /\ sleeps' = sleeps /\ polls' = polls
                   ELSE /\ pc' = "sleep"
                        /\ wake' - now = Min(delay * TicksPerUnit, remaining)
                        /\ wake' <= deadline
                        /\ wake' - now <= delay * TicksPerUnit
                        /\ sleeps' = sleeps + 1 /\ polls' = polls ]_vars

\* a second sleep, cut short so that it ends exactly at the deadline
C4_Witness ==
    /\ IsLoopCall /\ pc = "sleep" /\ sleeps >= 2
    /\ wake = deadline /\ now < wake /\ wake - now < delay * TicksPerUnit

(***************************************************************************)
(* C5.  matches(candidate, expected) is true iff every key of expected is  *)
(* a key of candidate with an equal value; a key of expected missing from  *)
(* candidate makes it false, also when the expected value is None.         *)
(* (Refuted by the code: item.get(k) of a missing key is None.)            *)
(***************************************************************************)
C5_MatchesIffSubset ==
    /\ (args.op = "dynamodb.to_exist" /\ args.entries # PyNone) =>
         \A item \in table :
            _matches_entries(item, args.entries) = SubsetMatch(item, args.entries)
    /\ (args.op = "s3.to_exist" /\ args.entries # PyNone) =>
         \A o \in bucket :
            json_loads(o.Body).isdict =>
               _matches_entries(json_loads(o.Body).value, args.entries)
                 = SubsetMatch(json_loads(o.Body).value, args.entries)

(***************************************************************************)
(* C6.  Item waiter to_exist: when, strictly before the deadline, the      *)
(* record for key becomes present and matching and stays so, the call does *)
(* not raise the timeout failure.  (Refuted by the code: the lookup that   *)
(* saw no match can be answered after the deadline.)                       *)
(***************************************************************************)
C6_MidFlightSuccess ==
    (args.op = "dynamodb.to_exist" /\ Done /\ satBefore) => ~TimedOut

(***************************************************************************)
(* C7.  Object waiter to_exist without entries, timeout > 0: when the      *)
(* object is created less than timeout after the call starts and remains,  *)
(* the call does not raise the timeout failure.  Stated for calls whose    *)
(* every existence check was answered "not found" (no store error).        *)
(* (Refuted by the code: the last check is made before start + timeout.)   *)
(***************************************************************************)
C7_ObjectCreatedWithinTimeout ==
    (/\ args.op = "s3.to_exist" /\ args.entries = PyNone /\ args.timeout > 0
     /\ Done /\ satBefore /\ unsat = polls)
        => ~TimedOut

(***************************************************************************)
(* C8.  to_be_empty returns success only at a poll taken while the table   *)
(* holds no item (the capped count probe reported 0), to_not_be_empty only *)
(* at a poll taken while it holds one (the probe reported a count > 0).    *)
(***************************************************************************)
C8_EmptinessObservedAtPoll ==
    [][ (PollStep /\ outcome'.kind = "return") =>
          /\ args.op = "dynamodb.to_be_empty" =>
                (table = {} /\ scan(table, 1).Count = 0 /\ outcome'.value = PyNone)
          /\ args.op = "dynamodb.to_not_be_empty" =>
                (table # {} /\ scan(table, 1).Count > 0 /\ outcome'.value = PyNone) ]_vars

\* success after polls that still saw items: they were deleted during the wait
C8_Witness ==
    /\ args.op = "dynamodb.to_be_empty" /\ ReturnedValue
    /\ unsat >= 1 /\ table = {}

(***************************************************************************)
(* C9.  to_not_exist returns None exactly at the first poll whose lookup   *)
(* finds no record for key; while the polls find the record it goes on     *)
(* and raises the timeout failure only once the clock reached the deadline.*)
(***************************************************************************)
C9_ToNotExistFirstAbsentPoll ==
    [][ args.op = "dynamodb.to_not_exist" =>
          /\ PollStep =>
               LET absent == "Item" \notin DOMAIN get_item(table, args.key)
               IN  /\ outcome'.kind = "return" =>
                        (absent /\ outcome'.value = PyNone /\ unsat = polls)
                   /\ absent => pc' = "done"
                   /\ ~absent => outcome'.kind # "return"
          /\ (pc = "deadline" /\ pc' = "done") =>
               /\ now >= deadline /\ unsat = polls
               /\ outcome'.kind = "raise"
               /\ isinstance(outcome'.exc, "WaitTimeoutError")
          /\ (pc = "deadline" /\ pc' = "sleep") => now < deadline ]_vars

\* the record was there at the first polls and was deleted during the wait
C9_Witness ==
    /\ args.op = "dynamodb.to_not_exist" /\ ReturnedValue
    /\ unsat >= 1 /\ polls = unsat + 1

(***************************************************************************)
(* C10.  A timeout failure of an item waiter operation carries the table   *)
(* name captured at construction, the timeout as passed, the key as passed *)
(* (to_exist, to_not_exist) or None with a message stating "to be empty" / *)
(* "to not be empty" (to_be_empty, to_not_be_empty), and is an instance of *)
(* WaitTimeoutError.  The failure is the one raised after polls that all   *)
(* found the predicate unsatisfied (a store error leaves its poll uncounted *)
(* in unsat).                                                              *)
(***************************************************************************)
C10_ItemTimeoutCarriesContext ==
    (args.op \in DynamoOps /\ Done /\ outcome.kind = "raise" /\ unsat = polls) =>
        /\ outcome.exc.cls = "DynamoDBWaitTimeoutError"
        /\ isinstance(outcome.exc, "WaitTimeoutError")
        /\ outcome.exc.table_name = TableName
        /\ outcome.exc.timeout = args.timeout
        /\ args.op \in {"dynamodb.to_exist", "dynamodb.to_not_exist"} =>
              (outcome.exc.key = args.key /\ args.key \in CallKeys)
        /\ args.op \in {"dynamodb.to_be_empty", "dynamodb.to_not_be_empty"} =>
              /\ outcome.exc.key = PyNone
              /\ outcome.exc.msg[3] = "s waiting for table "
              /\ outcome.exc.msg[5] =
                    (IF args.op = "dynamodb.to_be_empty"
                       THEN " to be empty" ELSE " to not be empty")

C10_Witness ==
    /\ args.op = "dynamodb.to_not_be_empty" /\ TimedOut
    /\ outcome.exc.key = PyNone /\ args.timeout > 0

(***************************************************************************)
(* C11.  A timeout failure of an object waiter operation carries the       *)
(* bucket and key captured at construction and the timeout as passed, and  *)
(* is an instance of WaitTimeoutError, the supertype it shares with the    *)
(* item waiter's failure.                                                  *)
(***************************************************************************)
C11_ObjectTimeoutCarriesContext ==
    (args.op \in S3Ops /\ Done /\ outcome.kind = "raise"
        /\ outcome.exc.cls # "ClientError") =>
        /\ outcome.exc.cls = "S3WaitTimeoutError"
        /\ isinstance(outcome.exc, "WaitTimeoutError")
        /\ Bases[outcome.exc.cls] = Bases["DynamoDBWaitTimeoutError"]
        /\ outcome.exc.bucket = BucketName
        /\ outcome.exc.key = ObjectKey
        /\ outcome.exc.timeout = args.timeout

C11_Witness ==
    /\ args.op = "s3.to_not_exist" /\ TimedOut
    /\ polls >= 2 /\ unsat = polls

(***************************************************************************)
(* C12.  In the content-matching poll loop a get_object that fails with    *)
(* NoSuchKey or 404, and a body that does not parse, count as a non-match  *)
(* and the loop goes on to its deadline check; a get_object that fails     *)
(* with any other code ends the call at once with that same error: no      *)
(* sleep, no further poll, no timeout failure.                             *)
(***************************************************************************)
C12_NotFoundRetriedOtherErrorsAbort ==
    [][ /\ (args.op = "s3.to_exist" /\ args.entries # PyNone /\ PollStep) =>
             /\ answer' \in {"NoSuchKey", "404"} =>
                   (pc' = "deadline" /\ unsat' = unsat + 1 /\ outcome' = outcome)
             /\ (answer' = "ok" /\ ~json_loads(the_object(bucket).Body).ok) =>
                   (pc' = "deadline" /\ unsat' = unsat + 1 /\ outcome' = outcome)
             /\ answer' \notin {"ok", "NoSuchKey", "404"} =>
                   /\ pc' = "done"
                   /\ outcome' = Raised(ClientError(answer'))
                   /\ sleeps' = sleeps /\ wake' = wake /\ unsat' = unsat
        /\ (args.op = "s3.to_exist" /\ args.entries # PyNone /\ Done) =>
             (pc' = "done" /\ outcome' = outcome /\ polls' = polls /\ sleeps' = sleeps)
      ]_vars

\* the object was not there at first, then get_object was refused
C12_Witness ==
    /\ args.op = "s3.to_exist" /\ args.entries # PyNone /\ Done
    /\ unsat >= 1 /\ answer = "AccessDenied"
    /\ outcome = Raised(ClientError("AccessDenied"))

(***************************************************************************)
(* C13.  In every wait operation of both waiters a store error that is not *)
(* a not-found error surfaces to the caller as that store error; a typed   *)
(* timeout failure is never raised in its place.  (Refuted by the code:    *)
(* the native waits turn every WaiterError into S3WaitTimeoutError.)       *)
(***************************************************************************)
C13_StoreErrorsSurface ==
    (Done /\ answer \notin {"none", "ok", "NoSuchKey", "404"}) =>
        outcome = Raised(ClientError(answer))

(***************************************************************************)
(* C14.  Object waiter to_exist without entries ends either by returning   *)
(* the object's metadata or by raising the typed timeout failure, whatever *)
(* other actors create or delete meanwhile.  Stated for calls whose store  *)
(* answered every request with the object or with "not found".  (Refuted   *)
(* by the code: head_object of an object deleted after the native wait     *)
(* raises ClientError 404.)                                                *)
(***************************************************************************)
C14_ExistOutcomeIsMetadataOrTimeout ==
    (/\ args.op = "s3.to_exist" /\ args.entries = PyNone /\ Done
     /\ answer \in {"ok", "NoSuchKey", "404"})
        => \/ ReturnedValue /\ outcome.value.Key = ObjectKey
           \/ TimedOut

(***************************************************************************)
(* C16 as stated.  Within one call of an explicit-loop operation every     *)
(* sleep between two polls lasts the effective delay.  (Refuted: the sleep *)
(* is min(delay, remaining), so the last one can be shorter.)              *)
(***************************************************************************)
C16_EverySleepIsTheDelay ==
    [][ (IsLoopCall /\ pc = "deadline" /\ pc' = "sleep") =>
            wake' - now = delay * TicksPerUnit ]_vars

(***************************************************************************)
(* C16 amended.  Within one call of an explicit-loop operation the delay   *)
(* never changes, and every sleep between two polls lasts exactly that     *)
(* delay, except that the last sleep of the call may be shorter, and then  *)
(* it ends exactly at the deadline.                                        *)
(***************************************************************************)
C16_SleepIsTheDelayExceptTheLast ==
    [][ /\ (IsLoopCall /\ pc # "start") => delay' = delay
        /\ (IsLoopCall /\ pc = "deadline" /\ pc' = "sleep") =>
             /\ \/ wake' - now = delay * TicksPerUnit
                \/ wake' - now < delay * TicksPerUnit /\ wake' = deadline
             /\ sleeps >= 1 => wake < deadline ]_vars

\* the poll after a sleep that was cut short: the sleeps cannot all have been whole
C16_Witness ==
    /\ IsLoopCall /\ pc = "poll" /\ sleeps >= 2
    /\ wake = deadline
    /\ sleeps * delay * TicksPerUnit > args.timeout

(***************************************************************************)
(* C17.  The delay every wait operation works with, in the explicit loops  *)
(* and in the native waiter configuration alike, is max(1, ceil            *)
(* (poll_interval)): 1 for every poll_interval <= 0, the ceiling for every *)
(* other one, always an integer >= 1.                                      *)
(***************************************************************************)
C17_EffectiveDelay ==
    LET IsEffectiveDelay(d, p) ==
            /\ d \in Nat /\ d >= 1
            /\ p <= 0 => d = 1
            /\ p > 0 => (d * TicksPerUnit >= p /\ (d - 1) * TicksPerUnit < p)
    IN  /\ pc = "start" =>
              \A p \in (0 - MaxPollInterval - 1) .. (MaxPollInterval + 1) :
                 /\ IsEffectiveDelay(_compute_delay(p), p)
                 /\ \A t \in Timeouts :
                       IsEffectiveDelay(_build_waiter_config(t, p).Delay, p)
        /\ pc # "start" => IsEffectiveDelay(delay, args.poll_interval)

\* a call with a fractional poll_interval is asleep for the rounded-up delay
C17_Witness ==
    /\ pc \in {"sleep", "native_sleep"}
    /\ args.poll_interval % TicksPerUnit # 0
    /\ delay > 1 /\ (delay - 1) * TicksPerUnit < args.poll_interval

(***************************************************************************)
(* C18.  Subset match is monotonic in strictness: for every candidate,     *)
(* every expected mapping and every further field (k, v) not in it, a      *)
(* match of the mapping with the field added implies a match of the        *)
(* mapping without it.                                                     *)
(***************************************************************************)
C18_MatchIsMonotonic ==
    LET Parsed == {json_loads(o.Body) : o \in bucket}
        Candidates == table \cup {b.value : b \in {x \in Parsed : x.isdict}}
        Expected == (EntriesArgs \ {PyNone}) \cup {a : a \in ItemAttrs}
        FieldNames == {"pk", "status", "total", "note"}
        FieldValues == {PyNone, Str("shipped"), Str("pending"), Str("100"), Str("k1")}
        Monotonic(c, e) ==
            \A k \in FieldNames \ DOMAIN e, v \in FieldValues :
               _matches_entries(c, (k :> v) @@ e) => _matches_entries(c, e)
    IN  /\ pc = "start" => \A c \in Candidates, e \in Expected : Monotonic(c, e)
        /\ args.entries # PyNone => \A c \in Candidates : Monotonic(c, args.entries)

\* to_exist returned an item that an added field would have turned away
C18_Witness ==
    /\ args.op = "dynamodb.to_exist" /\ ReturnedValue
    /\ args.entries = [status |-> Str("shipped")]
    /\ _matches_entries(outcome.value, args.entries)
    /\ ~_matches_entries(outcome.value, ("note" :> Str("x")) @@ args.entries)

(***************************************************************************)
(* C19.  Subset match accepts every expectation that is a sub-mapping of   *)
(* the candidate: a mapping matches itself, matches the empty mapping, and *)
(* matches every mapping all of whose pairs are pairs of it.               *)
(***************************************************************************)
C19_MatchAcceptsSubMappings ==
    LET Parsed == {json_loads(o.Body) : o \in bucket}
        Stored == table \cup {b.value : b \in {x \in Parsed : x.isdict}}
        Mappings == Stored \cup Items \cup (EntriesArgs \ {PyNone})
    IN  /\ pc = "start" =>
              \A x \in Mappings :
                 \A S \in SUBSET DOMAIN x :
                    _matches_entries(x, [k \in S |-> x[k]])
        /\ \A x \in Stored :
              /\ _matches_entries(x, x)
              /\ _matches_entries(x, EmptyDict)
              /\ (args.entries # PyNone /\ SubsetMatch(x, args.entries)) =>
                    _matches_entries(x, args.entries)

\* the content-matching wait returned an object whose content equals the expectation
C19_Witness ==
    /\ args.op = "s3.to_exist" /\ ReturnedValue
    /\ args.entries = EmptyDict
    /\ DOMAIN outcome.value = {}

(***************************************************************************)
(* C20.  Object waiter to_exist with entries absent uses only the native   *)
(* wait and one head_object, never get_object; with entries present, the   *)
(* empty mapping included, it uses only the poll loop, never the native    *)
(* wait, and it returns the parsed content only at a poll whose parsed     *)
(* content is a mapping that satisfies the subset match; a parsed value    *)
(* that is no mapping is a non-match.  (Refuted by the code through the    *)
(* defect of C5: an expected None value matches a missing field.)          *)
(***************************************************************************)
C20_ExistDispatchAndContentReturn ==
    [][ args.op = "s3.to_exist" =>
          /\ args.entries = PyNone => pc' \notin {"poll", "deadline", "sleep"}
          /\ args.entries # PyNone =>
               /\ pc' \notin {"native", "native_sleep", "head"}
               /\ (pc # "done" /\ pc' = "done" /\ outcome'.kind = "return") =>
                    /\ pc = "poll"
                    /\ object_present(bucket)
                    /\ LET body == json_loads(the_object(bucket).Body)
                       IN  /\ body.ok /\ body.isdict
                           /\ SubsetMatch(body.value, args.entries)
                           /\ outcome'.value = body.value
               /\ (PollStep /\ object_present(bucket) /\ answer' = "ok"
                     /\ ~json_loads(the_object(bucket).Body).isdict) =>
                    pc' = "deadline" ]_vars

(***************************************************************************)
(* C15.  Two item waiters whose to_exist calls run concurrently on one     *)
(* table, for the same key or for different keys, share no state: a step   *)
(* of one call changes neither the other call's locals nor the table, each *)
(* call's deadline is its own start plus its own timeout, and when each    *)
(* call's record is there from a time before that call's deadline on, and  *)
(* the store fails no request, both calls return.  (Refuted by the code    *)
(* through the defect of C6: a call whose last lookup is answered after    *)
(* its deadline raises the timeout failure.)                               *)
(***************************************************************************)
C15_ConcurrentWaitersIndependent ==
    [][ /\ other'.pc # other.pc =>
             UNCHANGED <<table, args, pc, delay, deadline, wake, outcome,
                         polls, unsat, sleeps, issuedAt, satBefore>>
        /\ pc' # pc =>
             (table' = table /\ other' = other)
        /\ pc' # "start" => deadline' = StartTime + args.timeout
        /\ (other.pc = "start" /\ other'.pc # "start") =>
             other'.deadline = now + other.args.timeout
        /\ (other.pc # "start" /\ other'.pc # "start") =>
             other'.deadline = other.deadline
        /\ (/\ pc' = "done" /\ other'.pc = "done"
            /\ satBefore' /\ other'.satBefore
            /\ \A o \in {outcome', other'.outcome} :
                  o.kind = "raise" => o.exc.cls # "ClientError")
             => (outcome'.kind = "return" /\ other'.outcome.kind = "return")
      ]_vars

(***************************************************************************)
(* C21 as stated.  to_exist with entries = {} succeeds at the first poll   *)
(* that finds the resource present, whatever its content, in the item      *)
(* waiter and in the object waiter.  (Refuted for the object waiter: an    *)
(* object whose content is no JSON mapping is a non-match, s3.py:77-78.)   *)
(***************************************************************************)
C21_EmptyEntriesIsExistenceOnly ==
    [][ (/\ args.op \in {"dynamodb.to_exist", "s3.to_exist"}
         /\ args.entries = EmptyDict /\ PollStep /\ answer' = "ok"
         /\ Holds([args EXCEPT !.entries = PyNone], table, bucket))
           => (pc' = "done" /\ outcome'.kind = "return") ]_vars

(***************************************************************************)
(* C21 amended.  Item waiter: to_exist with entries = {} decides every     *)
(* poll as the same call with entries omitted does, it returns the item at *)
(* the first answered poll that finds the item present, whatever its       *)
(* attributes.  Object waiter: to_exist with entries = {} returns the      *)
(* parsed content at the first answered poll that finds the object present *)
(* with content that parses as a JSON mapping, and at no other poll.       *)
(***************************************************************************)
C21_EmptyEntriesMatchesEveryMapping ==
    [][ /\ pc = "start" =>
             \A item \in Items \cup {PyNone} :
                ToExistSatisfied(item, EmptyDict) = ToExistSatisfied(item, PyNone)
        /\ (args.op = "dynamodb.to_exist" /\ args.entries = EmptyDict
              /\ PollStep /\ answer' = "ok") =>
             LET response == get_item(table, args.key)
             IN  IF "Item" \in DOMAIN response
                   THEN pc' = "done" /\ outcome' = Returned(response.Item)
                   ELSE pc' = "deadline" /\ outcome' = outcome
        /\ (args.op = "s3.to_exist" /\ args.entries = EmptyDict
              /\ PollStep /\ answer' = "ok") =>
             LET body == json_loads(the_object(bucket).Body)
             IN  IF body.ok /\ body.isdict
                   THEN pc' = "done" /\ outcome' = Returned(body.value)
                   ELSE pc' = "deadline" /\ outcome' = outcome ]_vars

\* the object is there, its content is a list: the poll with entries = {} did not succeed
C21_Witness ==
    /\ args.op = "s3.to_exist" /\ args.entries = EmptyDict
    /\ pc = "deadline" /\ answer = "ok" /\ polls = 1 /\ now = issuedAt
    /\ bucket = {Object("[\"shipped\"]")}

(***************************************************************************)
(* C22.  The native object waits (to_exist without entries, to_not_exist)  *)
(* are configured with Delay = max(1, ceil(poll_interval)) and MaxAttempts *)
(* = max(1, ceil(timeout / Delay)); MaxAttempts is an integer >= 1, so at  *)
(* least one existence check is made even for timeout <= 0; and a native   *)
(* wait that used up its attempts ends in the typed timeout failure.       *)
(***************************************************************************)
C22_NativeWaiterConfig ==
    LET IsConfig(c, t, p) ==
            LET span == c.Delay * TicksPerUnit
            IN  /\ c.Delay \in Nat /\ c.Delay >= 1
                /\ p <= 0 => c.Delay = 1
                /\ p > 0 => (span >= p /\ span - TicksPerUnit < p)
                /\ c.MaxAttempts \in Nat /\ c.MaxAttempts >= 1
                /\ t <= span => c.MaxAttempts = 1
                /\ t > span => /\ c.MaxAttempts * span >= t
                               /\ (c.MaxAttempts - 1) * span < t
        NativeCall == args.op = "s3.to_not_exist"
                        \/ (args.op = "s3.to_exist" /\ args.entries = PyNone)
    IN  /\ pc = "start" =>
              \A t \in Timeouts, p \in (0 - 1) .. (MaxPollInterval + 1) :
                 IsConfig(_build_waiter_config(t, p), t, p)
        /\ (NativeCall /\ pc # "start") =>
              /\ IsConfig([Delay |-> delay, MaxAttempts |-> max_attempts],
                          args.timeout, args.poll_interval)
              /\ pc \in {"native", "native_sleep"} => polls < max_attempts
        /\ (NativeCall /\ Done) =>
              /\ polls >= 1
              /\ unsat = polls =>
                    /\ polls = max_attempts
                    /\ outcome = Raised(S3WaitTimeoutError(BucketName, ObjectKey,
                                                           args.timeout))

\* timeout <= 0: one existence check was made, then the typed failure
C22_Witness ==
    /\ args.op = "s3.to_not_exist" /\ args.timeout <= 0
    /\ TimedOut /\ polls = 1 /\ unsat = 1 /\ max_attempts = 1

(***************************************************************************)
(* C23.  In every explicit poll loop the predicate is evaluated before the *)
(* deadline: a poll that observes the predicate satisfied ends the call    *)
(* with success, also when it is answered after the deadline, and the      *)
(* timeout failure is raised only after a poll that observed the predicate *)
(* unsatisfied.                                                            *)
(***************************************************************************)
C23_SatisfiedPollAlwaysSucceeds ==
    [][ /\ (IsLoopCall /\ PollStep /\ answer' = "ok"
              /\ Holds(args, table, bucket)) =>
             (pc' = "done" /\ outcome'.kind = "return")
        /\ (IsLoopCall /\ pc' = "done" /\ pc # "done" /\ outcome'.kind = "raise"
              /\ isinstance(outcome'.exc, "WaitTimeoutError")) =>
             (pc = "deadline" /\ unsat = polls /\ polls >= 1)
        /\ (IsLoopCall /\ PollStep /\ unsat' = unsat) => pc' = "done"
      ]_vars

\* the request that found the object matching left after the deadline
C23_Witness ==
    /\ args.op = "s3.to_exist" /\ args.entries = [status |-> Str("shipped")]
    /\ args.timeout > 0
    /\ ReturnedValue /\ issuedAt > deadline /\ polls >= 2

(***************************************************************************)
(* C24.  Every explicit-loop wait call ends, by returning or by raising,   *)
(* when every store request is answered and the clock advances; the sleeps *)
(* it requested add up to at most max(0, timeout); and for timeout > 0 it  *)
(* sends at most ceil(timeout / delay) + 1 requests.                       *)
(***************************************************************************)
C24_LoopTerminatesWithinBudget ==
    /\ [](IsLoopCall =>
            /\ slept <= Max(0, args.timeout)
            /\ (args.timeout > 0 /\ pc # "start") =>
                  polls <= CeilDiv(args.timeout, delay * TicksPerUnit) + 1)
    /\ (IsLoopCall ~> Done)

\* a call that used its whole budget: every sleep it could request, every poll it could send
C24_Witness ==
    /\ IsLoopCall /\ TimedOut /\ args.timeout > 0
    /\ args.timeout % (delay * TicksPerUnit) # 0
    /\ slept = args.timeout
    /\ polls = CeilDiv(args.timeout, delay * TicksPerUnit) + 1

(***************************************************************************)
(* C25.  Wait operations are read-only and stateless: no step of a wait    *)
(* call changes the table or the bucket, none changes the table name,      *)
(* bucket and key the waiter captured when it was constructed, and what a  *)
(* call works with is set from its own arguments and the clock when it     *)
(* starts, nothing being kept in the waiter between calls.                 *)
(***************************************************************************)
C25_WaitsAreReadOnly ==
    [][ /\ pc' # pc => (table' = table /\ bucket' = bucket /\ args' = args)
        /\ self' = self
        /\ self = [_table_name |-> TableName, _bucket |-> BucketName,
                   _key |-> ObjectKey]
        /\ (pc = "start" /\ pc' # "start") =>
             IF IsLoopCall
               THEN /\ delay' = _compute_delay(args.poll_interval)
                    /\ deadline' = now + args.timeout
               ELSE [Delay |-> delay', MaxAttempts |-> max_attempts']
                      = _build_waiter_config(args.timeout, args.poll_interval)
      ]_vars

\* the call polled an item again and again and left it where it was
C25_Witness ==
    /\ args.op = "dynamodb.to_not_exist" /\ TimedOut /\ polls >= 2
    /\ "Item" \in DOMAIN get_item(table, args.key)
    /\ self._table_name = TableName

(***************************************************************************)
(* C26.  The native object waits keep to the time budget of the explicit   *)
(* loops: the sleeps of a native wait add up to (MaxAttempts - 1) * Delay  *)
(* at most, which is less than timeout for timeout > 0 and is 0 for        *)
(* timeout <= 0, and a native wait that gives up made its last existence   *)
(* check at or after the deadline start + timeout, as the explicit loop    *)
(* does.  (Refuted by the code in its last part, the defect of C7: the     *)
(* last check is made at start + (MaxAttempts - 1) * Delay, before the     *)
(* deadline.)                                                              *)
(***************************************************************************)
C26_NativeWaitKeepsTheBudget ==
    (/\ args.op = "s3.to_not_exist" \/ (args.op = "s3.to_exist" /\ args.entries = PyNone)
     /\ pc # "start") =>
        /\ slept <= (max_attempts - 1) * delay * TicksPerUnit
        /\ args.timeout > 0 => slept < args.timeout
        /\ args.timeout <= 0 => slept = 0
        /\ (Done /\ unsat = polls) =>
              /\ outcome = Raised(S3Timeout)
              /\ issuedAt >= StartTime + args.timeout

====
